---- MODULE Spec2Model ----
(***************************************************************************)
(* Model of the SmartHireAI agents: the RateLimiter, the retry wrappers of *)
(* generate_job_details / calculate_fit_score, the chunk loop of           *)
(* parse_resume and the near-duplicate merge of _merge_chunk_data.         *)
(*                                                                         *)
(* Text is a sequence of one-character strings.  Time is in whole seconds. *)
(***************************************************************************)
EXTENDS Integers, Sequences, FiniteSets, TLC

(***************************************************************************)
(* Bounds of the model.                                                    *)
(***************************************************************************)
MaxLen == 4
MaxItems == 2
MaxAcc == 2
MaxMerges == 2
MaxCalls == 5
MaxClock == 130
MaxRuns == 2
MaxChunks == 2
MaxTicks == 2

(***************************************************************************)
(* State.                                                                  *)
(***************************************************************************)
VARIABLES
  clock,      \* datetime.now(), in seconds
  requests,   \* self.requests of the agent's RateLimiter
  l_pc,       \* "idle", or "sleeping" inside time.sleep of wait_if_needed
  l_now,      \* the local `now` of the call in progress
  l_wake,     \* the instant the sleep of the call in progress ends
  l_calls,    \* number of calls of wait_if_needed started
  issued      \* the instants at which wait_if_needed returned

limiterVars == <<clock, requests, l_pc, l_now, l_wake, l_calls, issued>>

VARIABLES
  w_pc,         \* "idle", "loop" (inside the while loop) or "done"
  w_site,       \* "job": generate_job_details, "fit": calculate_fit_score
  w_requests,   \* rate_limiter.requests of generate_job_details' own limiter
  retry_count,  \* retry_count of the wrapper
  w_outcomes,   \* what each generate_content attempt of this invocation gave
  w_cooldowns,  \* number of time.sleep(35) of this invocation
  w_result,     \* how the while loop ended
  w_runs,       \* number of invocations started
  w_parsed,     \* the parsed_resume argument of calculate_fit_score
  w_events,     \* the calls of this invocation on the limiter, the service
                \* and time.sleep, in order
  w_return,     \* what the function returned
  w_body,       \* scores of calculate_fit_score as json.loads gave them
  w_issued      \* the instants of the generation requests made by
                \* generate_job_details, over all its invocations

retryVars ==
  <<w_pc, w_site, w_requests, retry_count, w_outcomes, w_cooldowns, w_result, w_runs,
    w_parsed, w_events, w_return, w_body, w_issued>>

VARIABLES
  p_pc,           \* "idle", "chunks" (inside the chunk loop), "done" (returned)
                  \* or "raised" (an exception left parse_resume)
  resume_text,    \* the argument of parse_resume
  p_passed,       \* TRUE when some attempt passed _validate_chunk_info
  p_chunks,       \* len(chunks)
  p_found,        \* found_skills: the common skills among the document's words
  p_i,            \* index of the chunk being processed, from 1
  p_temps,        \* temperatures (in tenths) requested so far for this chunk
  p_calls,        \* the calls made so far for this chunk, in order
  p_valid_at,     \* attempt of this chunk that passed _validate_chunk_info, or 0
  chunk_info,     \* chunk_info of the chunk being processed
  combined_info,  \* the accumulator
  p_fin,          \* the chunk finished last: its temperatures, the attempt that
                  \* passed validation (or 0), the kind of chunk_info it ended
                  \* with, the accumulator before it ended
  p_result        \* what parse_resume returned

parseVars ==
  <<p_pc, resume_text, p_passed, p_chunks, p_found, p_i, p_temps, p_calls,
    p_valid_at, chunk_info, combined_info, p_fin, p_result>>

VARIABLES
  m_section,    \* the key of combined_info the list belongs to
  m_existing,   \* existing_items: combined_info[key]
  m_new,        \* new_items of the latest merge
  m_prev,       \* existing_items before the latest merge
  m_count,      \* number of chunks merged
  m_again       \* TRUE when the latest merge repeated the chunk before it

mergeVars == <<m_section, m_existing, m_new, m_prev, m_count, m_again>>

VARIABLES
  s_pc,        \* "idle", or "returned" from process_application_submission
  s_text,      \* the resume_text argument of the submission
  s_parsed,    \* parsed_resume, when parse_resume was called and returned
  s_scores,    \* scores, when calculate_fit_score was called
  s_calls,     \* the calls made on the collaborators, in order
  s_emailed,   \* what the email call returned, "none" when there was none
  s_result,    \* the mapping returned
  s_status,    \* the status given to update_application_score, "" without one
  s_job,       \* what get_job gave, "" when it was not called
  s_update     \* what update_application_score did, "" when it was not called

submitVars ==
  <<s_pc, s_text, s_parsed, s_scores, s_calls, s_emailed, s_result, s_status,
    s_job, s_update>>

VARIABLES
  c_clock,     \* datetime.now() for the concurrent callers
  c_requests,  \* self.requests of the RateLimiter they share
  c_pc,        \* per caller: the statement of wait_if_needed it is about to run
  c_now,       \* per caller: its local `now`
  c_kept       \* per caller: the list its comprehension built

concVars == <<c_clock, c_requests, c_pc, c_now, c_kept>>

VARIABLES
  v_pc,   \* "given" or "validated"
  v_in,   \* the parsed response handed to _validate_chunk_info
  v_out   \* its verdict, and chunk_info as it leaves it

validateVars == <<v_pc, v_in, v_out>>

VARIABLES
  f_pc,        \* "given" or "finalized"
  f_text,      \* resume_text after preprocessing
  f_combined,  \* combined_info when the chunk loop has ended
  f_result     \* cleaned_info as parse_resume returns it

finalVars == <<f_pc, f_text, f_combined, f_result>>

VARIABLES
  j_pc,       \* "idle", or "returned" from process_job_creation
  j_details,  \* what generate_job_details gave
  j_calls,    \* the calls made on the collaborators, in order
  j_written,  \* number of job records inserted
  j_result    \* the mapping returned

jobVars == <<j_pc, j_details, j_calls, j_written, j_result>>

vars ==
  <<limiterVars, retryVars, parseVars, mergeVars, submitVars, concVars, validateVars,
    finalVars, jobVars>>

(***************************************************************************)
(* Text helpers.                                                           *)
(***************************************************************************)
Letters == {"a", "b"}

Range(s) == {s[i] : i \in DOMAIN s}

SetMax(S) == CHOOSE x \in S : \A y \in S : y <= x

SetMin(S) == CHOOSE x \in S : \A y \in S : x <= y

\* str.lower() on one character
LowerChar(c) ==
  CASE c = "A" -> "a"
    [] c = "B" -> "b"
    [] c = "W" -> "w"
    [] OTHER -> c

\* str.lower()
Lower(s) == [i \in DOMAIN s |-> LowerChar(s[i])]

UpperChar(c) ==
  CASE c = "a" -> "A"
    [] c = "b" -> "B"
    [] OTHER -> c

\* the text with its first character in upper case
Capitalized(s) == [i \in DOMAIN s |-> IF i = 1 THEN UpperChar(s[i]) ELSE s[i]]

\* all lower-case texts over Letters of length 1..n
RECURSIVE TextsUpTo(_)
TextsUpTo(n) ==
  IF n = 0 THEN {}
  ELSE LET shorter == TextsUpTo(n - 1)
       IN  {<<c>> : c \in Letters} \cup shorter
             \cup {Append(t, c) : t \in shorter, c \in Letters}

\* the lower-case texts of the model: they start with "a" and hold at most
\* one "b"
LowerTexts ==
  {t \in TextsUpTo(MaxLen) :
     t[1] = "a" /\ Cardinality({i \in DOMAIN t : t[i] = "b"}) <= 1}

\* the texts of the model: the lower-case ones, and "A"
Texts == LowerTexts \cup {Capitalized(t) : t \in {u \in LowerTexts : Len(u) = 1}}

(***************************************************************************)
(* json.dumps of an education entry, as _merge_chunk_data compares it:     *)
(* {"degree": "..", "institution": "..", "year": ".."}                     *)
(***************************************************************************)
DegreeKey == <<"{", "\"", "d", "e", "g", "r", "e", "e", "\"", ":", " ", "\"">>

InstitutionKey ==
  <<"\"", ",", " ", "\"", "i", "n", "s", "t", "i", "t", "u", "t", "i", "o", "n",
    "\"", ":", " ", "\"">>

YearKey == <<"\"", ",", " ", "\"", "y", "e", "a", "r", "\"", ":", " ", "\"">>

DumpsEnd == <<"\"", "}">>

IsDict(item) == "degree" \in DOMAIN item

JsonDumps(item) ==
  DegreeKey \o item.degree \o InstitutionKey \o item.institution
    \o YearKey \o item.year \o DumpsEnd

\* new_str / existing_str of _merge_chunk_data
ComparableStr(item) == IF IsDict(item) THEN JsonDumps(item) ELSE item.str

(***************************************************************************)
(* difflib.SequenceMatcher(None, a, b).ratio(), with Python's 0-based      *)
(* half-open ranges [alo, ahi) and [blo, bhi).                             *)
(***************************************************************************)
RECURSIVE MatchLen(_, _, _, _, _, _)
MatchLen(a, b, i, j, ahi, bhi) ==
  IF i < ahi /\ j < bhi /\ a[i + 1] = b[j + 1]
  THEN 1 + MatchLen(a, b, i + 1, j + 1, ahi, bhi)
  ELSE 0

\* <<besti, bestj, bestsize>>: the longest block, earliest in a, then in b
FindLongestMatch(a, b, alo, ahi, blo, bhi) ==
  LET pairs == (alo .. ahi - 1) \X (blo .. bhi - 1)
      lens == [p \in pairs |-> MatchLen(a, b, p[1], p[2], ahi, bhi)]
      best == IF pairs = {} THEN 0 ELSE SetMax({lens[p] : p \in pairs})
      besti == SetMin({p[1] : p \in {q \in pairs : lens[q] = best}})
      bestj == SetMin({p[2] : p \in {q \in pairs : q[1] = besti /\ lens[q] = best}})
  IN  IF best = 0 THEN <<alo, blo, 0>> ELSE <<besti, bestj, best>>

\* sum of the sizes of get_matching_blocks()
RECURSIVE MatchingTotal(_, _, _, _, _, _)
MatchingTotal(a, b, alo, ahi, blo, bhi) ==
  LET m == FindLongestMatch(a, b, alo, ahi, blo, bhi)
      i == m[1]
      j == m[2]
      k == m[3]
  IN  IF k = 0 THEN 0
      ELSE k
           + (IF alo < i /\ blo < j THEN MatchingTotal(a, b, alo, i, blo, j) ELSE 0)
           + (IF i + k < ahi /\ j + k < bhi
              THEN MatchingTotal(a, b, i + k, ahi, j + k, bhi) ELSE 0)

\* ratio() as the fraction num/den = 2.0*matches/length; 1.0 when both are empty
Ratio(a, b) ==
  LET length == Len(a) + Len(b)
  IN  IF length = 0 THEN [num |-> 1, den |-> 1]
      ELSE [num |-> 2 * MatchingTotal(a, b, 0, Len(a), 0, Len(b)), den |-> length]

\* similarity of a candidate to an existing element, as a fraction
Similarity(new_item, existing_item) ==
  Ratio(Lower(ComparableStr(new_item)), Lower(ComparableStr(existing_item)))

\* fraction r compared with 0.8
Above08(r) == 10 * r.num > 8 * r.den

AtLeast08(r) == 10 * r.num >= 8 * r.den

(***************************************************************************)
(* Elements of the accumulator lists.  A skill is a text, an education     *)
(* entry a dict; both are records here so that one list can be typed.      *)
(***************************************************************************)
\* a trailing blank or a trailing punctuation character
Suffixes == {" ", "."}

\* texts of "a"s followed by one of the Suffixes
SuffixedTexts ==
  {Append(t, c) : t \in {u \in LowerTexts : "b" \notin Range(u) /\ Len(u) < MaxLen},
                  c \in Suffixes}

SkillItems == {[str |-> t] : t \in Texts \cup SuffixedTexts}

EduDegrees == {<<"a">>, <<"b">>}

EduItems == {[degree |-> d, institution |-> <<>>, year |-> <<>>] : d \in EduDegrees}

Items == SkillItems \cup EduItems

\* where a ratio lies with respect to 0.8
RatioClass(r) ==
  IF Above08(r) THEN "above" ELSE IF AtLeast08(r) THEN "at" ELSE "below"

\* the class of the similarity of every pair of elements of the model,
\* computed once
SimilarityClasses ==
  {<<p, RatioClass(Similarity(p[1], p[2]))>> : p \in Items \X Items}

SimilarityClass(new_item, existing_item) ==
  IF new_item \in Items /\ existing_item \in Items
  THEN CHOOSE c \in {"below", "at", "above"} :
         <<<<new_item, existing_item>>, c>> \in SimilarityClasses
  ELSE RatioClass(Similarity(new_item, existing_item))

\* the test `similarity > 0.8` of _merge_chunk_data
TooSimilarGE(new_item, existing_item) ==
  SimilarityClass(new_item, existing_item) \in {"at", "above"}

TooSimilar(new_item, existing_item) ==
  SimilarityClass(new_item, existing_item) = "above"

\* one iteration of the candidate loop: the list after handling new_item
MergeOneAlways(existing_items, new_item) == Append(existing_items, new_item)

MergeOne(existing_items, new_item) ==
  LET should_add == ~ \E i \in DOMAIN existing_items :
                         TooSimilar(new_item, existing_items[i])
  IN  IF should_add THEN Append(existing_items, new_item) ELSE existing_items

RECURSIVE merge_chunk_data(_, _)
merge_chunk_data(existing_items, new_items) ==
  IF new_items = <<>> THEN existing_items
  ELSE merge_chunk_data(MergeOne(existing_items, Head(new_items)), Tail(new_items))

(***************************************************************************)
(* RateLimiter(max_requests=2, time_window=60).                            *)
(***************************************************************************)
max_requests == 2
time_window == 60

\* random.uniform(0.1, 2.0), at whole seconds
JitterChoices == {1, 2}

\* seconds between the return of one call and the arrival of the next
Pauses == {0, 1, 59}

\* self.requests without the entries that are time_window old or older
Purge(reqs, now) == SelectSeq(reqs, LAMBDA t : now - t < time_window)

\* (oldest_request + time_window - now).total_seconds()
WaitTime(reqs, now) == SetMin(Range(reqs)) + time_window - now

\* the limiter sleeps: the quota is used up and the wait is positive
MustSleep(reqs, now) == Len(reqs) >= max_requests /\ WaitTime(reqs, now) > 0

\* self.requests.append(now)
AppendTwice(reqs, now) == Append(Append(reqs, now), now)

AppendRequest(reqs, now) == Append(reqs, now)

LimiterInit ==
  /\ clock = 0
  /\ requests = <<>>
  /\ l_pc = "idle"
  /\ l_now = 0
  /\ l_wake = 0
  /\ l_calls = 0
  /\ issued = <<>>

\* wait_if_needed() when it does not sleep: purge, append now, return
CallImmediate ==
  /\ l_pc = "idle"
  /\ l_calls < MaxCalls
  /\ \E d \in Pauses :
       LET now == clock + d
           kept == Purge(requests, now)
       IN  /\ now <= MaxClock
           /\ ~ MustSleep(kept, now)
           /\ clock' = now
           /\ requests' = AppendRequest(kept, now)
           /\ issued' = Append(issued, now)
           /\ l_now' = now
  /\ l_calls' = l_calls + 1
  /\ UNCHANGED <<l_pc, l_wake>>
  /\ UNCHANGED <<retryVars, parseVars, mergeVars, submitVars, concVars, validateVars, finalVars,
                 jobVars>>

\* wait_if_needed() up to time.sleep(total_wait): purge, compute the wait
CallSleep ==
  /\ l_pc = "idle"
  /\ l_calls < MaxCalls
  /\ \E d \in Pauses, jitter \in JitterChoices :
       LET now == clock + d
           kept == Purge(requests, now)
       IN  /\ now <= MaxClock
           /\ MustSleep(kept, now)
           /\ clock' = now
           /\ requests' = kept
           /\ l_now' = now
           /\ l_wake' = now + WaitTime(kept, now) + jitter
  /\ l_pc' = "sleeping"
  /\ l_calls' = l_calls + 1
  /\ UNCHANGED issued
  /\ UNCHANGED <<retryVars, parseVars, mergeVars, submitVars, concVars, validateVars, finalVars,
                 jobVars>>

\* one second of the sleep passes
SleepTick ==
  /\ l_pc = "sleeping"
  /\ clock < l_wake
  /\ clock' = clock + 1
  /\ UNCHANGED <<requests, l_pc, l_now, l_wake, l_calls, issued>>
  /\ UNCHANGED <<retryVars, parseVars, mergeVars, submitVars, concVars, validateVars, finalVars,
                 jobVars>>

\* the sleep is over: append the `now` read before it, return
WaitReturn ==
  /\ l_pc = "sleeping"
  /\ clock >= l_wake
  /\ requests' = AppendRequest(requests, l_now)
  /\ issued' = Append(issued, clock)
  /\ l_pc' = "idle"
  /\ UNCHANGED <<clock, l_now, l_wake, l_calls>>
  /\ UNCHANGED <<retryVars, parseVars, mergeVars, submitVars, concVars, validateVars, finalVars,
                 jobVars>>

(***************************************************************************)
(* wait_if_needed() as one step of a caller that blocks in it: the request *)
(* list it leaves and the instant it returns.                              *)
(***************************************************************************)
wait_if_needed(reqs, now, jitter) ==
  LET kept == Purge(reqs, now)
  IN  [requests |-> AppendRequest(kept, now),
       returned |-> IF MustSleep(kept, now)
                    THEN now + WaitTime(kept, now) + jitter
                    ELSE now]

(***************************************************************************)
(* The retry loop around generate_content in generate_job_details and in   *)
(* calculate_fit_score.                                                    *)
(***************************************************************************)
max_retries == 3

\* time.sleep(35)
cooldown == 35

\* what one pass through the try block can give:
\*   "ok"       the statements of the try block complete (break)
\*   "empty"    response.text is empty: generate_job_details raises ValueError
\*   "badjson"  json.loads(response.text) of calculate_fit_score raises
\*   "rate"     generate_content raises and "429" is in the message
\*   "error"    generate_content raises and "429" is not in the message
AttemptOutcomes(site) ==
  IF site = "job" THEN {"ok", "empty", "rate", "error"}
  ELSE {"ok", "badjson", "rate", "error"}

\* "429" in str(api_error)
Is429(outcome) == outcome = "rate"

\* the except block, with retry_count already incremented to count
HandlerDecisionLE(is429, count) ==
  IF is429 /\ count <= max_retries THEN "retry"
  ELSE IF count = max_retries THEN "exhausted"
  ELSE "reraise"

HandlerDecision(is429, count) ==
  IF is429 /\ count < max_retries THEN "retry"
  ELSE IF count = max_retries THEN "exhausted"
  ELSE "reraise"

NoResult == [kind |-> "none", error |-> "", count |-> 0]

\* ValueError(f"Failed to get response after {max_retries} retries")
RetriesExhausted == [kind |-> "raised", error |-> "RetriesExhausted", count |-> max_retries]

(***************************************************************************)
(* What generate_job_details, calculate_fit_score and                      *)
(* generate_detailed_feedback return.                                      *)
(***************************************************************************)
ScoreFields ==
  {"skill_match_score", "experience_relevance_score", "education_alignment_score",
   "overall_fit_score"}

\* the four scores with one value, in tenths of a point
AllScores(v) == [f \in ScoreFields |-> v]

JobFields == {"description", "responsibilities", "required_skills", "qualifications"}

\* the list fields of a job's details
ListFields == {"responsibilities", "required_skills", "qualifications"}

\* a returned value: its keys, its scores when it is a score mapping, and
\* which of its list fields are empty lists when it holds job details
ReturnValue(kind, keys, scores, empty) ==
  [kind |-> kind, keys |-> keys, scores |-> scores, empty |-> empty]

NotReturned == ReturnValue("none", {}, AllScores(0), {})

\* the mapping of calculate_fit_score: the four scores and the reasoning
ScoreMapping(scores) ==
  ReturnValue("scores", ScoreFields \cup {"reasoning"}, scores, {})

\* the except block of generate_job_details: {'status': 'error', 'error': error_msg}
JobError == ReturnValue("error", {"status", "error"}, AllScores(0), {})

\* job_details of the JSON path, or the sections of the fallback path
JobDetails == ReturnValue("details", JobFields, AllScores(0), {})

\* json_data of the fallback path, returned as the text carried it
EmbeddedDetails(empty) == ReturnValue("details", JobFields, AllScores(0), empty)

\* response.text of generate_detailed_feedback, or None
FeedbackText == ReturnValue("text", {}, AllScores(0), {})
FeedbackNone == ReturnValue("None", {}, AllScores(0), {})

\* what response.text of generate_job_details can be:
\*   "valid"       JSON with the four fields, the list fields non-empty lists
\*   "incomplete"  JSON without one of them: ValueError
\*   "embedded"    not JSON as a whole, but its {...} part is JSON with the
\*                 four fields, the list fields non-empty lists
\*   "bare"        the same, with [] for responsibilities
\*   "text"        not JSON, and _parse_unstructured_response returns sections
\*   "unparsable"  not JSON, and _parse_unstructured_response returns None
JobBodies == {"valid", "incomplete", "embedded", "bare", "text", "unparsable"}

\* the rest of generate_job_details after its while loop
JobReturn(result, body) ==
  IF result.kind = "raised" \/ body \in {"incomplete", "unparsable"} THEN JobError
  ELSE IF body = "embedded" THEN EmbeddedDetails({})
  ELSE IF body = "bare" THEN EmbeddedDetails({"responsibilities"})
  ELSE JobDetails

\* the scores of the early return, of a missing or unusable field, of the
\* except blocks and the limits of a score, in tenths of a point
minimal_score == 50
conservative_score == 150
error_score == 100
lowest_score == 0
highest_score == 1000

\* the value a scoring response gives for a field: none, one float() rejects,
\* or a number (in tenths)
RawValue(kind, value) == [kind |-> kind, value |-> value]

RawValues ==
  {RawValue("missing", 0), RawValue("text", 0), RawValue("number", 0),
   RawValue("number", 600), RawValue("number", 1010)}

\* what json.loads(response.text) of calculate_fit_score can be: a value
\* that is not a mapping, or a mapping
FitBodies ==
  {[mapping |-> FALSE, fields |-> AllScores(RawValue("missing", 0))]}
    \cup {[mapping |-> TRUE,
           fields |-> [skill_match_score |-> a,
                       experience_relevance_score |-> RawValue("number", 700),
                       education_alignment_score |-> b,
                       overall_fit_score |-> c]] :
            a \in RawValues, b \in {RawValue("missing", 0), RawValue("number", -10)},
            c \in RawValues}

\* no scoring response was parsed
NoFitBody == [mapping |-> FALSE, fields |-> AllScores(RawValue("none", 0))]

\* a normalisation that leaves a number as the response gave it
NormalizedUnclamped(raw) ==
  IF raw.kind # "number" THEN conservative_score ELSE raw.value

\* scores[field] after the loop over required_fields
Normalized(raw) ==
  IF raw.kind # "number" THEN conservative_score
  ELSE IF raw.value > highest_score THEN highest_score
  ELSE IF raw.value < lowest_score THEN lowest_score
  ELSE raw.value

\* the scores after normalisation and the weighted average
NormalizedScores(body) ==
  LET n == [f \in ScoreFields |-> Normalized(body.fields[f])]
  IN  IF n.overall_fit_score = 0 \/ n.overall_fit_score > highest_score
      THEN [n EXCEPT !.overall_fit_score =
              (4 * n.skill_match_score + 4 * n.experience_relevance_score
                 + 2 * n.education_alignment_score) \div 10]
      ELSE n

\* the rest of calculate_fit_score after its while loop
FitReturn(result, body) ==
  IF result.kind = "raised"
  THEN IF result.error = "badjson" THEN ScoreMapping(AllScores(conservative_score))
       ELSE ScoreMapping(AllScores(error_score))
  ELSE IF ~ body.mapping THEN ScoreMapping(AllScores(error_score))
  ELSE ScoreMapping(NormalizedScores(body))

\* parsed_resume as calculate_fit_score looks at it
ParsedShapes ==
  {[skills |-> k, experience |-> e] : k \in {<<>>, <<"a">>}, e \in {<<>>, <<"a">>}}

\* a test that lets every parsed_resume through to the scoring request
ParsingFailedNever(parsed) == FALSE

\* not parsed_resume.get("skills") and not parsed_resume.get("experience")
ParsingFailed(parsed) == parsed.skills = <<>> /\ parsed.experience = <<>>

RetryInit ==
  /\ w_pc = "idle"
  /\ w_site = "job"
  /\ w_requests = <<>>
  /\ retry_count = 0
  /\ w_outcomes = <<>>
  /\ w_cooldowns = 0
  /\ w_result = NoResult
  /\ w_runs = 0
  /\ w_parsed = [skills |-> <<>>, experience |-> <<>>]
  /\ w_events = <<>>
  /\ w_return = NotReturned
  /\ w_body = NoFitBody
  /\ w_issued = <<>>

\* calculate_fit_score is entered with a parsed_resume without skills and
\* without experience: the minimal scores are returned at once
FitMinimal ==
  /\ w_pc \in {"idle", "done"}
  /\ w_runs < MaxRuns
  /\ \E parsed \in ParsedShapes :
       /\ ParsingFailed(parsed)
       /\ w_parsed' = parsed
  /\ w_site' = "fit"
  /\ w_pc' = "done"
  /\ retry_count' = 0
  /\ w_outcomes' = <<>>
  /\ w_cooldowns' = 0
  /\ w_result' = NoResult
  /\ w_runs' = w_runs + 1
  /\ w_events' = <<>>
  /\ w_return' = ScoreMapping(AllScores(minimal_score))
  /\ w_body' = NoFitBody
  /\ UNCHANGED <<w_requests, w_issued>>
  /\ UNCHANGED <<limiterVars, parseVars, mergeVars, submitVars, concVars, validateVars, finalVars,
                 jobVars>>

\* generate_detailed_feedback: one generate_content, and None on any error
DetailedFeedback ==
  /\ w_pc \in {"idle", "done"}
  /\ w_runs < MaxRuns
  /\ \E outcome \in {"ok", "rate", "error"} :
       /\ w_outcomes' = <<outcome>>
       /\ w_return' = IF outcome = "ok" THEN FeedbackText ELSE FeedbackNone
  /\ w_site' = "feedback"
  /\ w_pc' = "done"
  /\ retry_count' = 0
  /\ w_cooldowns' = 0
  /\ w_result' = NoResult
  /\ w_runs' = w_runs + 1
  /\ w_events' = <<"generate_content">>
  /\ w_body' = NoFitBody
  /\ UNCHANGED <<w_requests, w_parsed, w_issued>>
  /\ UNCHANGED <<limiterVars, parseVars, mergeVars, submitVars, concVars, validateVars, finalVars,
                 jobVars>>

\* the function is entered and reaches its while loop; generate_job_details
\* constructs its own RateLimiter
WrapperStart ==
  /\ w_pc \in {"idle", "done"}
  /\ w_runs < MaxRuns
  /\ \E site \in {"job", "fit"}, parsed \in ParsedShapes :
       /\ site = "fit" => ~ ParsingFailed(parsed)
       /\ site = "job" => parsed = w_parsed
       /\ w_site' = site
       /\ w_parsed' = parsed
       /\ w_requests' = IF site = "job" THEN <<>> ELSE w_requests
  /\ w_pc' = "loop"
  /\ retry_count' = 0
  /\ w_outcomes' = <<>>
  /\ w_cooldowns' = 0
  /\ w_result' = NoResult
  /\ w_runs' = w_runs + 1
  /\ w_events' = <<>>
  /\ w_return' = NotReturned
  /\ w_body' = NoFitBody
  /\ UNCHANGED w_issued
  /\ UNCHANGED <<limiterVars, parseVars, mergeVars, submitVars, concVars, validateVars, finalVars,
                 jobVars>>

\* one iteration of the while loop: wait_if_needed, generate_content, and
\* the except block when the try block raises; when the loop ends, also the
\* rest of the function
WrapperAttempt ==
  /\ w_pc = "loop"
  /\ retry_count < max_retries
  /\ \E outcome \in AttemptOutcomes(w_site), jitter \in JitterChoices :
     \* the text of the response is read only when generate_content gave one
     \E job_body \in IF w_site = "job" /\ outcome = "ok" THEN JobBodies ELSE {"valid"},
        fit_body \in IF w_site = "fit" /\ outcome = "ok" THEN FitBodies ELSE {NoFitBody} :
       LET own == w_site = "job"
           lim == wait_if_needed(IF own THEN w_requests ELSE requests, clock, jitter)
           count == retry_count + 1
           decision == IF outcome = "ok" THEN "break"
                       ELSE HandlerDecision(Is429(outcome), count)
           result ==
             CASE decision = "break" -> [kind |-> "response", error |-> "", count |-> count]
               [] decision = "exhausted" -> RetriesExhausted
               [] decision = "reraise" -> [kind |-> "raised", error |-> outcome, count |-> count]
               [] OTHER -> w_result
       IN  /\ w_events' = w_events \o <<"wait_if_needed", "generate_content">>
                            \o (IF decision = "retry" THEN <<"sleep">> ELSE <<>>)
           /\ w_return' = IF decision = "retry" THEN w_return
                          ELSE IF own THEN JobReturn(result, job_body)
                          ELSE FitReturn(result, fit_body)
           /\ w_body' = IF ~ own /\ decision = "break" THEN fit_body ELSE NoFitBody
           /\ w_issued' = IF own THEN Append(w_issued, lim.returned) ELSE w_issued
           /\ w_requests' = IF own THEN lim.requests ELSE w_requests
           /\ requests' = IF own THEN requests ELSE lim.requests
           /\ clock' = lim.returned + (IF decision = "retry" THEN cooldown ELSE 0)
           /\ retry_count' = IF outcome = "ok" THEN retry_count ELSE count
           /\ w_outcomes' = Append(w_outcomes, outcome)
           /\ w_cooldowns' = w_cooldowns + (IF decision = "retry" THEN 1 ELSE 0)
           /\ w_pc' = IF decision = "retry" THEN "loop" ELSE "done"
           /\ w_result' = result
  /\ UNCHANGED <<w_site, w_runs, w_parsed>>
  /\ UNCHANGED <<l_pc, l_now, l_wake, l_calls, issued>>
  /\ UNCHANGED <<parseVars, mergeVars, submitVars, concVars, validateVars, finalVars,
                 jobVars>>

(***************************************************************************)
(* parse_resume: what the service can answer to one extraction request,    *)
(* and _validate_chunk_info.                                               *)
(***************************************************************************)
\* temperatures = [0.3, 0.5, 0.7], in tenths
Temperatures == <<3, 5, 7>>

\* str.strip(), with the blank as the whitespace of the model
RECURSIVE LStrip(_)
LStrip(s) == IF s # <<>> /\ Head(s) = " " THEN LStrip(Tail(s)) ELSE s

RECURSIVE RStrip(_)
RStrip(s) ==
  IF s # <<>> /\ s[Len(s)] = " " THEN RStrip(SubSeq(s, 1, Len(s) - 1)) ELSE s

Strip(s) == RStrip(LStrip(s))

NoEntries == [education |-> <<>>, skills |-> <<>>, experience |-> <<>>, projects |-> <<>>]

\* the values chunk_info takes.  kind is
\*   "none"     None
\*   "falsy"    parsed JSON that is not a mapping and is falsy: null, 0, "", []
\*   "inert"    a truthy list or string holding none of the four keys: [1, 2]
\*   "raising"  a truthy value on which `key in chunk_info` or chunk_info[key]
\*              raises TypeError: 5, true, "skills", ["skills"]
\*   "map"      a dict; unsized says that it has an extra key whose value has
\*              no len(), such as {"skills": [..], "total": 1}
ChunkValue(kind) ==
  [kind |-> kind, education |-> <<>>, skills |-> <<>>, experience |-> <<>>,
   projects |-> <<>>, unsized |-> FALSE]

None == ChunkValue("none")

\* the lists a response mapping carries, as the service wrote them
RawSkillLists ==
  { <<>>,
    << <<"a", "b">> >>,
    << <<" ", "A">>, <<"a", "a", "b">> >>,
    << <<" ">> >> }

RawEduLists ==
  { <<>>,
    << [degree |-> <<"a">>, institution |-> <<>>, year |-> <<>>] >>,
    << [degree |-> <<" ">>, institution |-> <<>>, year |-> <<>>] >> }

\* what one extraction request can give:
\*   "rate"         generate_content raises and "429" is in the message
\*   "error"        generate_content raises otherwise
\*   "empty"        response.text is empty
\*   "unparseable"  json.loads raises, also on the {...} part of the text
\*   otherwise the parsed value
ParseResponses ==
  {ChunkValue(k) : k \in {"rate", "error", "empty", "unparseable",
                          "falsy", "inert", "raising"}}
    \cup {[ChunkValue("map") EXCEPT !.skills = sk, !.education = ed, !.unsized = u] :
            sk \in RawSkillLists, ed \in RawEduLists, u \in BOOLEAN}

\* cleaned_skills of _validate_chunk_info
CleanedSkills(raw) ==
  SelectSeq([i \in DOMAIN raw |-> [str |-> Strip(raw[i])]], LAMBDA x : x.str # <<>>)

\* an entry of a list that is a string, not a dict
IsString(item) == "str" \in DOMAIN item

\* the entries of a list that pass isinstance(entry, dict)
Dicts(raw) == SelectSeq(raw, LAMBDA item : ~ IsString(item))

\* [str(x).strip() for x in texts if x and str(x).strip()]
StrippedTexts(texts) ==
  SelectSeq([i \in DOMAIN texts |-> Strip(texts[i])], LAMBDA t : t # <<>>)

\* cleaned_education of _validate_chunk_info
CleanedEducation(raw) ==
  LET dicts == Dicts(raw)
  IN  SelectSeq([i \in DOMAIN dicts |-> [degree |-> Strip(dicts[i].degree),
                                         institution |-> Strip(dicts[i].institution),
                                         year |-> Strip(dicts[i].year)]],
                LAMBDA e : e.degree # <<>> \/ e.institution # <<>>)

\* a cleaning that keeps an experience entry for its title alone
CleanedExperienceByTitle(raw) ==
  LET dicts == Dicts(raw)
  IN  SelectSeq([i \in DOMAIN dicts |->
                   [title |-> Strip(dicts[i].title),
                    company |-> Strip(dicts[i].company),
                    duration |-> Strip(dicts[i].duration),
                    responsibilities |-> StrippedTexts(dicts[i].responsibilities)]],
                LAMBDA e : e.title # <<>>)

\* cleaned_experience of _validate_chunk_info
CleanedExperience(raw) ==
  LET dicts == Dicts(raw)
  IN  SelectSeq([i \in DOMAIN dicts |->
                   [title |-> Strip(dicts[i].title),
                    company |-> Strip(dicts[i].company),
                    duration |-> Strip(dicts[i].duration),
                    responsibilities |-> StrippedTexts(dicts[i].responsibilities)]],
                LAMBDA e : e.title # <<>> \/ e.company # <<>>)

\* cleaned_projects of _validate_chunk_info
CleanedProjects(raw) ==
  LET dicts == Dicts(raw)
  IN  SelectSeq([i \in DOMAIN dicts |->
                   [name |-> Strip(dicts[i].name),
                    description |-> Strip(dicts[i].description),
                    technologies |-> StrippedTexts(dicts[i].technologies)]],
                LAMBDA e : e.name # <<>> \/ e.description # <<>>)

\* _validate_chunk_info: the verdict, and chunk_info as it leaves it
validate_chunk_info_BlanksKept(value) ==
  IF value.kind # "map" THEN [ok |-> FALSE, info |-> value]
  ELSE [ok |-> CleanedSkills(value.skills) # <<>>
                 \/ CleanedEducation(value.education) # <<>>
                 \/ value.experience # <<>> \/ value.projects # <<>>,
        info |-> [value EXCEPT
                    !.skills = [i \in DOMAIN value.skills |-> [str |-> value.skills[i]]],
                    !.education = CleanedEducation(value.education)]]

validate_chunk_info(value) ==
  IF value.kind # "map" THEN [ok |-> FALSE, info |-> value]
  ELSE LET info == [value EXCEPT !.skills = CleanedSkills(value.skills),
                                 !.education = CleanedEducation(value.education),
                                 !.experience = CleanedExperience(value.experience),
                                 !.projects = CleanedProjects(value.projects)]
       IN  [ok |-> info.skills # <<>> \/ info.education # <<>>
                     \/ info.experience # <<>> \/ info.projects # <<>>,
            info |-> info]

(***************************************************************************)
(* _validate_chunk_info on its own: the parsed responses it can be given.  *)
(***************************************************************************)
\* what chunk_info[key] can be: a list, absent, or a value that is not a list
Section(form, items) == [form |-> form, items |-> items]

NonLists == {Section("missing", <<>>), Section("other", <<>>)}

\* an entry that is a dict where a string belongs, or the reverse
StrayDict == [degree |-> <<"a">>, institution |-> <<>>, year |-> <<>>]
StrayString == [str |-> <<"a">>]

GivenSkills ==
  NonLists \cup
  {Section("list", l) :
     l \in { <<>>,
             << [str |-> <<" ", "a">>] >>,
             << [str |-> <<" ">>] >>,
             << StrayDict >>,
             << [str |-> <<>>], [str |-> <<"b">>] >> }}

GivenEducation ==
  NonLists \cup
  {Section("list", l) :
     l \in { <<>>,
             << [degree |-> <<"a", " ">>, institution |-> <<>>, year |-> <<>>] >>,
             << [degree |-> <<" ">>, institution |-> <<>>, year |-> <<"b">>] >>,
             << [degree |-> <<>>, institution |-> <<"b">>, year |-> <<>>] >>,
             << StrayString >>,
             << [degree |-> <<>>, institution |-> <<" ">>, year |-> <<>>],
                [degree |-> <<"a">>, institution |-> <<"b">>, year |-> <<>>] >> }}

GivenExperience ==
  NonLists \cup
  {Section("list", l) :
     l \in { <<>>,
             << [title |-> <<" ", "a">>, company |-> <<>>, duration |-> <<>>,
                 responsibilities |-> << <<" ">>, <<"b", " ">> >>] >>,
             << [title |-> <<>>, company |-> <<"b">>, duration |-> <<>>,
                 responsibilities |-> <<>>] >>,
             << [title |-> <<" ">>, company |-> <<>>, duration |-> <<"a">>,
                 responsibilities |-> << <<"a">> >>] >>,
             << StrayString >> }}

GivenProjects ==
  NonLists \cup
  {Section("list", l) :
     l \in { <<>>,
             << [name |-> <<"a">>, description |-> <<>>,
                 technologies |-> << <<>>, <<"b">> >>] >>,
             << [name |-> <<>>, description |-> <<" ", "b">>, technologies |-> <<>>] >>,
             << [name |-> <<>>, description |-> <<" ">>,
                 technologies |-> << <<"a">> >>] >>,
             << StrayString >> }}

\* the parsed responses: values that are not a mapping, and mappings
GivenResponses ==
  {[kind |-> k, education |-> Section("missing", <<>>),
    skills |-> Section("missing", <<>>), experience |-> Section("missing", <<>>),
    projects |-> Section("missing", <<>>)] : k \in {"falsy", "inert", "raising"}}
    \cup {[kind |-> "map", education |-> ed, skills |-> sk, experience |-> ex,
           projects |-> pr] :
            ed \in GivenEducation, sk \in GivenSkills, ex \in GivenExperience,
            pr \in GivenProjects}

\* lines 367-371: a missing key and a value that is not a list become []
ListOf(section) == IF section.form = "list" THEN section.items ELSE <<>>

\* the skills that pass isinstance(skill, (str, int, float)), as texts
ScalarTexts(raw) ==
  LET scalars == SelectSeq(raw, IsString)
  IN  [i \in DOMAIN scalars |-> scalars[i].str]

\* chunk_info once every key holds a list
Listed(given) ==
  IF given.kind # "map" THEN ChunkValue(given.kind)
  ELSE [ChunkValue("map") EXCEPT !.education = ListOf(given.education),
                                 !.skills = ScalarTexts(ListOf(given.skills)),
                                 !.experience = ListOf(given.experience),
                                 !.projects = ListOf(given.projects)]

NotValidated == [ok |-> FALSE, info |-> None]

\* no response is being validated, for the specifications that do not run it
ValidateIdle ==
  /\ v_pc = "validated"
  /\ v_in = [kind |-> "falsy", education |-> Section("missing", <<>>),
             skills |-> Section("missing", <<>>),
             experience |-> Section("missing", <<>>),
             projects |-> Section("missing", <<>>)]
  /\ v_out = NotValidated

ValidateInit ==
  /\ v_pc = "given"
  /\ v_in \in GivenResponses
  /\ v_out = NotValidated

\* one call of _validate_chunk_info
Validate ==
  /\ v_pc = "given"
  /\ v_out' = validate_chunk_info(Listed(v_in))
  /\ v_pc' = "validated"
  /\ UNCHANGED v_in
  /\ UNCHANGED <<limiterVars, retryVars, parseVars, mergeVars, submitVars, concVars,
                 finalVars, jobVars>>

\* `if chunk_info:` after the temperature loop
Truthy(value) == value.kind \in {"inert", "raising", "map"}

\* the merge loop over the keys of combined_info; it raises on a "raising"
\* value before anything is merged and finds no key in an "inert" one
MergeRaises(value) == value.kind = "raising"

MergedInto(combined, value) ==
  IF value.kind # "map" THEN combined
  ELSE [education |-> merge_chunk_data(combined.education, value.education),
        skills |-> merge_chunk_data(combined.skills, value.skills),
        experience |-> merge_chunk_data(combined.experience, value.experience),
        projects |-> merge_chunk_data(combined.projects, value.projects)]

(***************************************************************************)
(* parse_resume: _clean_combined_info, _is_valid_result and the keyword    *)
(* scan that follow the chunk loop.                                        *)
(***************************************************************************)
\* ord() of the characters skills are made of
Ord(c) ==
  CASE c = " " -> 32
    [] c = "A" -> 65
    [] c = "B" -> 66
    [] c = "a" -> 97
    [] c = "b" -> 98
    [] OTHER -> 127

\* s < t on Python strings
RECURSIVE TextLess(_, _)
TextLess(s, t) ==
  IF t = <<>> THEN FALSE
  ELSE IF s = <<>> THEN TRUE
  ELSE IF Head(s) # Head(t) THEN Ord(Head(s)) < Ord(Head(t))
  ELSE TextLess(Tail(s), Tail(t))

\* the sequences that list each element of S once
Orderings(S) == {q \in [1 .. Cardinality(S) -> S] : Range(q) = S}

\* sorted(list(skills_set))
SortedSkills(skills) ==
  LET skills_set == {[str |-> Strip(skills[i].str)] : i \in DOMAIN skills}
  IN  SortSeq(CHOOSE q \in Orderings(skills_set) : TRUE,
              LAMBDA x, y : TextLess(x.str, y.str))

clean_combined_info(combined) ==
  [education |-> [i \in DOMAIN combined.education |->
                    [degree |-> Strip(combined.education[i].degree),
                     institution |-> Strip(combined.education[i].institution),
                     year |-> Strip(combined.education[i].year)]],
   skills |-> SortedSkills(combined.skills),
   experience |-> SelectSeq(combined.experience, LAMBDA e : e.responsibilities # <<>>),
   projects |-> SelectSeq(combined.projects, LAMBDA e : e.technologies # <<>>)]

NotSpecified == <<"N", "o", "t", " ", "S", "p", "e", "c", "i", "f", "i", "e", "d">>

GeneralSkills == <<"G", "e", "n", "e", "r", "a", "l", " ", "S", "k", "i", "l", "l", "s">>

\* _is_valid_result: an empty section gets one placeholder entry
is_valid_result_SkillsLeftEmpty(cleaned) ==
  [education |-> IF cleaned.education = <<>>
                 THEN << [degree |-> NotSpecified, institution |-> NotSpecified,
                          year |-> NotSpecified] >>
                 ELSE cleaned.education,
   skills |-> cleaned.skills,
   experience |-> IF cleaned.experience = <<>>
                  THEN << [title |-> NotSpecified, company |-> NotSpecified,
                           duration |-> NotSpecified,
                           responsibilities |-> <<NotSpecified>>] >>
                  ELSE cleaned.experience,
   projects |-> IF cleaned.projects = <<>>
                THEN << [name |-> NotSpecified, description |-> NotSpecified,
                         technologies |-> <<NotSpecified>>] >>
                ELSE cleaned.projects]

is_valid_result(cleaned) ==
  [education |-> IF cleaned.education = <<>>
                 THEN << [degree |-> NotSpecified, institution |-> NotSpecified,
                          year |-> NotSpecified] >>
                 ELSE cleaned.education,
   skills |-> IF cleaned.skills = <<>> THEN << [str |-> GeneralSkills] >>
              ELSE cleaned.skills,
   experience |-> IF cleaned.experience = <<>>
                  THEN << [title |-> NotSpecified, company |-> NotSpecified,
                           duration |-> NotSpecified,
                           responsibilities |-> <<NotSpecified>>] >>
                  ELSE cleaned.experience,
   projects |-> IF cleaned.projects = <<>>
                THEN << [name |-> NotSpecified, description |-> NotSpecified,
                         technologies |-> <<NotSpecified>>] >>
                ELSE cleaned.projects]

\* str.split(): the blank-free runs of a text
RECURSIVE Words(_)
Words(text) ==
  LET s == LStrip(text)
      blanks == {i \in DOMAIN s : s[i] = " "}
      k == IF blanks = {} THEN Len(s) + 1 ELSE SetMin(blanks)
  IN  IF s = <<>> THEN {}
      ELSE {SubSeq(s, 1, k - 1)} \cup Words(SubSeq(s, k, Len(s)))

\* common_skills, of which the texts of the model can hold 'web'
CommonSkills == {<<"w", "e", "b">>}

\* found_skills = words.intersection(common_skills)
FoundSkills(text) == {[str |-> w] : w \in Words(Lower(text)) \cap CommonSkills}

\* the structures parse_resume can return on its success path; the order of
\* list(found_skills) is the set's
Finalized(combined, found_skills) ==
  LET info == is_valid_result(clean_combined_info(combined))
  IN  IF Len(info.skills) < 3 /\ found_skills # {}
      THEN {[info EXCEPT !.skills = info.skills \o extra] :
              extra \in Orderings(found_skills)}
      ELSE {info}

\* what parse_resume returns: the sections and whether parsing_error is set
Returned(info, failed) ==
  [education |-> info.education, skills |-> info.skills,
   experience |-> info.experience, projects |-> info.projects,
   parsing_error |-> failed]

NothingReturned == [education |-> <<>>, skills |-> <<>>, experience |-> <<>>,
                    projects |-> <<>>, parsing_error |-> FALSE]

(***************************************************************************)
(* parse_resume: the chunk loop.                                           *)
(***************************************************************************)
NoChunkFinished ==
  [chunk |-> 0, temps |-> <<>>, valid_at |-> 0, kind |-> "none", before |-> NoEntries]

\* the resume texts of the model
ResumeTexts == {<<>>, <<" ">>, <<" ", " ">>, <<"a">>, <<"a", " ", "W", "e", "b">>}

\* not resume_text or not resume_text.strip()
IsBlank(text) == text = <<>> \/ Strip(text) = <<>>

\* the except block of parse_resume: the error becomes the returned structure
UncaughtError == [pc |-> "raised", result |-> NothingReturned]

CaughtError == [pc |-> "done", result |-> Returned(NoEntries, TRUE)]

ParseInit ==
  /\ p_pc = "idle"
  /\ resume_text = <<>>
  /\ p_passed = FALSE
  /\ p_chunks = 0
  /\ p_found = {}
  /\ p_i = 0
  /\ p_temps = <<>>
  /\ p_calls = <<>>
  /\ p_valid_at = 0
  /\ chunk_info = None
  /\ combined_info = NoEntries
  /\ p_fin = NoChunkFinished
  /\ p_result = NothingReturned

\* parse_resume is called with a blank text: ValueError, before the try block
ParseBlank ==
  /\ p_pc = "idle"
  /\ \E text \in ResumeTexts :
       /\ IsBlank(text)
       /\ resume_text' = text
  /\ p_pc' = "raised"
  /\ UNCHANGED <<p_passed, p_chunks, p_found, p_i, p_temps, p_calls, p_valid_at,
                 chunk_info, combined_info, p_fin, p_result>>
  /\ UNCHANGED <<limiterVars, retryVars, mergeVars, submitVars, concVars, validateVars, finalVars,
                 jobVars>>

\* parse_resume is called with a text that is split into p_chunks chunks
ParseStart ==
  /\ p_pc = "idle"
  /\ \E text \in ResumeTexts, n \in 1 .. MaxChunks :
       /\ ~ IsBlank(text)
       /\ resume_text' = text
       /\ p_chunks' = n
       /\ p_found' = FoundSkills(text)
  /\ p_pc' = "chunks"
  /\ p_i' = 1
  /\ UNCHANGED <<p_passed, p_temps, p_calls, p_valid_at, chunk_info, combined_info, p_fin,
                 p_result>>
  /\ UNCHANGED <<limiterVars, retryVars, mergeVars, submitVars, concVars, validateVars, finalVars,
                 jobVars>>

\* the calls of one iteration of the temperature loop; the limiter and the
\* clock they act on are followed in SpecLimiter and SpecRetry
AttemptCalls(resp) ==
  <<"wait_if_needed", "generate_content">>
    \o (IF resp.kind = "rate" THEN <<"sleep">> ELSE <<>>)

\* one iteration of the temperature loop: wait_if_needed, generate_content,
\* parsing and validation; after the last iteration for the chunk also the
\* merge of chunk_info, and after the last chunk the rest of parse_resume
ParseAttempt ==
  /\ p_pc = "chunks"
  /\ \E resp \in ParseResponses :
       LET n == Len(p_temps) + 1
           parsed == resp.kind \in {"falsy", "inert", "raising", "map"}
           checked == validate_chunk_info(resp)
           info == IF parsed THEN checked.info ELSE chunk_info
           passes == parsed /\ checked.ok
           \* the print after a passed validation raises on an unsized value
           breaks == passes /\ ~ resp.unsized
           valid_at == IF p_valid_at = 0 /\ passes THEN n ELSE p_valid_at
           finished == breaks \/ n = Len(Temperatures)
           raises == Truthy(info) /\ MergeRaises(info)
           merged == IF Truthy(info) THEN MergedInto(combined_info, info)
                     ELSE combined_info
       IN  /\ p_passed' = (p_passed \/ passes)
           /\ IF ~ finished
              THEN /\ p_temps' = Append(p_temps, Temperatures[n])
                   /\ p_calls' = p_calls \o AttemptCalls(resp)
                   /\ chunk_info' = info
                   /\ p_valid_at' = valid_at
                   /\ UNCHANGED <<p_pc, p_i, combined_info, p_fin, p_result>>
              ELSE /\ p_fin' = [chunk |-> p_i,
                                temps |-> Append(p_temps, Temperatures[n]),
                                valid_at |-> valid_at,
                                kind |-> info.kind,
                                before |-> combined_info]
                   /\ p_temps' = <<>>
                   /\ p_calls' = <<>>
                   /\ chunk_info' = None
                   /\ p_valid_at' = 0
                   /\ IF raises
                      THEN \* TypeError, caught by the except of parse_resume
                           /\ p_pc' = CaughtError.pc
                           /\ p_result' = CaughtError.result
                           /\ UNCHANGED <<p_i, combined_info>>
                      ELSE /\ combined_info' = merged
                           /\ IF p_i = p_chunks
                              THEN /\ p_pc' = "done"
                                   /\ p_result' \in {Returned(f, FALSE) :
                                                       f \in Finalized(merged, p_found)}
                                   /\ UNCHANGED p_i
                              ELSE /\ p_i' = p_i + 1
                                   /\ UNCHANGED <<p_pc, p_result>>
  /\ UNCHANGED <<resume_text, p_chunks, p_found>>
  /\ UNCHANGED <<limiterVars, retryVars, mergeVars, submitVars, concVars, validateVars, finalVars,
                 jobVars>>

(***************************************************************************)
(* The end of parse_resume on its own: from the accumulator the chunk loop *)
(* leaves to the structure returned.                                       *)
(***************************************************************************)
\* the documents: the texts parse_resume accepts, and one that is a keyword
FinalTexts == {t \in ResumeTexts : ~ IsBlank(t)} \cup {<<"w", "e", "b">>}

\* skills lists the merge can leave: cleaned texts, no two of them similar
FinalSkills ==
  { <<>>,
    << [str |-> <<"a">>] >>,
    << [str |-> <<"w", "e", "b">>] >>,
    << [str |-> <<"b">>], [str |-> <<"W", "e", "b">>] >>,
    << [str |-> <<"b">>], [str |-> <<"a">>], [str |-> <<"w", "e", "b">>] >> }

FinalEducation ==
  { <<>>, << [degree |-> <<"a">>, institution |-> <<>>, year |-> <<>>] >> }

FinalExperience ==
  { <<>>,
    << [title |-> <<"a">>, company |-> <<>>, duration |-> <<>>,
        responsibilities |-> <<>>] >>,
    << [title |-> <<"a">>, company |-> <<>>, duration |-> <<>>,
        responsibilities |-> << <<"b">> >>] >> }

FinalProjects ==
  { <<>>,
    << [name |-> <<"a">>, description |-> <<>>, technologies |-> << <<"b">> >>] >> }

FinalAccumulators ==
  {[education |-> ed, skills |-> sk, experience |-> ex, projects |-> pr] :
     ed \in FinalEducation, sk \in FinalSkills, ex \in FinalExperience,
     pr \in FinalProjects}

\* nothing is being finalized, for the specifications that do not run it
FinalIdle ==
  /\ f_pc = "finalized"
  /\ f_text = <<>>
  /\ f_combined = NoEntries
  /\ f_result = NoEntries

FinalInit ==
  /\ f_pc = "given"
  /\ f_text \in FinalTexts
  /\ f_combined \in FinalAccumulators
  /\ f_result = NoEntries

\* _clean_combined_info, _is_valid_result and the keyword scan
Finalize ==
  /\ f_pc = "given"
  /\ f_result' \in Finalized(f_combined, FoundSkills(f_text))
  /\ f_pc' = "finalized"
  /\ UNCHANGED <<f_text, f_combined>>
  /\ UNCHANGED <<limiterVars, retryVars, parseVars, mergeVars, submitVars, concVars,
                 validateVars, jobVars>>

(***************************************************************************)
(* The merge on its own: one accumulator list, folded chunk by chunk.      *)
(***************************************************************************)
SectionItems(section) == IF section = "skills" THEN SkillItems ELSE EduItems

\* the lists of n elements of a section
ChunkLists(section, n) == [1 .. n -> SectionItems(section)]

MergeInit ==
  /\ m_section \in {"skills", "education"}
  /\ m_existing = <<>>
  /\ m_new = <<>>
  /\ m_prev = <<>>
  /\ m_count = 0
  /\ m_again = FALSE

\* parse_resume folds the list chunk_info[key] of a chunk into combined_info[key]
MergeChunk ==
  /\ m_count < MaxMerges
  /\ \E n \in 0 .. MaxItems :
     /\ Len(m_existing) + n <= MaxAcc
     /\ \E chunk \in ChunkLists(m_section, n) :
          /\ m_prev' = m_existing
          /\ m_existing' = merge_chunk_data(m_existing, chunk)
          /\ m_new' = chunk
  /\ m_count' = m_count + 1
  /\ m_again' = FALSE
  /\ UNCHANGED m_section
  /\ UNCHANGED <<limiterVars, retryVars, parseVars, submitVars, concVars, validateVars, finalVars,
                 jobVars>>

\* the same chunk list is merged a second time
MergeAgain ==
  /\ m_count > 0
  /\ ~ m_again
  /\ m_prev' = m_existing
  /\ m_existing' = merge_chunk_data(m_existing, m_new)
  /\ m_again' = TRUE
  /\ UNCHANGED <<m_section, m_new, m_count>>
  /\ UNCHANGED <<limiterVars, retryVars, parseVars, submitVars, concVars, validateVars, finalVars,
                 jobVars>>

\* the merge at rest, for the specifications that do not run it
MergeIdle ==
  /\ m_section = "skills"
  /\ m_existing = <<>>
  /\ m_new = <<>>
  /\ m_prev = <<>>
  /\ m_count = 0
  /\ m_again = FALSE

(***************************************************************************)
(* process_application_submission: one submission, with what each          *)
(* collaborator gives.                                                     *)
(***************************************************************************)
\* db.get_job: the formatted job, or None
JobOutcomes == {"found", "missing"}

\* db.update_application_score:
\*   "application"  update_one changed the document, get_application gives it
\*   "unread"       update_one changed the document, get_application gives None
\*   "none"         modified_count is 0, or an exception was caught: None
UpdateOutcomes == {"application", "unread", "none"}

\* result.modified_count > 0
Modified(update) == update \in {"application", "unread"}

\* send_selection_email and send_rejection_email: True, or False on any failure
EmailOutcomes == {"sent", "unsent"}

\* the accumulators parse_resume can end its chunk loop with, in the model
Accumulators ==
  {NoEntries, [NoEntries EXCEPT !.skills = << [str |-> <<"a">>] >>],
   [NoEntries EXCEPT
      !.skills = << [str |-> <<"a">>] >>,
      !.education = << [degree |-> <<"a">>, institution |-> <<>>, year |-> <<>>] >>,
      !.experience = << [title |-> <<"a">>, company |-> <<>>, duration |-> <<>>,
                         responsibilities |-> <<>>] >>]}

\* what parse_resume gives for a text: ValueError for a blank one, else the
\* structure of its except block or one of its success path
ParseResults(text) ==
  IF IsBlank(text)
  THEN {[raised |-> TRUE, value |-> NothingReturned]}
  ELSE {[raised |-> FALSE, value |-> CaughtError.result]}
         \cup {[raised |-> FALSE, value |-> Returned(f, FALSE)] :
                 f \in UNION {Finalized(acc, FoundSkills(text)) : acc \in Accumulators}}

\* what calculate_fit_score gives, in tenths of a point
ScoreResults ==
  {[skill_match_score |-> s, overall_fit_score |-> o] :
     s \in {50, 590, 600}, o \in {50, 690, 700}}

NoScores == [skill_match_score |-> 0, overall_fit_score |-> 0]

\* overall_score >= 70 and skill_match >= 60, in tenths
overall_threshold == 700
skill_threshold == 600

\* a selection that needs both scores above their thresholds
ApplicationStatusStrict(scores) ==
  IF scores.overall_fit_score > overall_threshold
       /\ scores.skill_match_score > skill_threshold
  THEN "selected" ELSE "rejected"

\* 'selected' if (overall_score >= 70 and skill_match >= 60) else 'rejected'
ApplicationStatus(scores) ==
  IF scores.overall_fit_score >= overall_threshold
       /\ scores.skill_match_score >= skill_threshold
  THEN "selected" ELSE "rejected"

\* the mappings process_application_submission returns
SubmissionError(error) ==
  [status |-> "error", error |-> error, application_status |-> "", warning |-> FALSE]

SubmissionSuccess(application_status, warning) ==
  [status |-> "success", error |-> "", application_status |-> application_status,
   warning |-> warning]

NotSubmitted == [status |-> "", error |-> "", application_status |-> "", warning |-> FALSE]

\* a test that lets every outcome of the update through
UpdateFailedNever(update) == FALSE

\* `if not application:` after update_application_score
UpdateFailed(update) == update # "application"

\* a test that rejects the empty text only
SubmissionRejectsEmpty(text) == text = <<>>

\* `not resume_text or not resume_text.strip()` of the submission
SubmissionRejects(text) == IsBlank(text)

\* process_application_submission: the calls it makes on its collaborators,
\* in order, and the mapping it returns
process_application_submission(text, job, parsed, scores, update) ==
  LET missing_sections ==
        {section \in {"education", "skills", "experience"} :
           parsed.value[section] = <<>>}
      status == ApplicationStatus(scores)
      to_parse == <<"get_job", "parse_resume">>
      to_update == to_parse \o <<"calculate_fit_score", "update_application_score">>
  IN  IF SubmissionRejects(text)
      THEN [calls |-> <<>>,
            result |-> SubmissionError("Resume text is empty or invalid")]
      ELSE IF job = "missing"
      THEN [calls |-> <<"get_job">>, result |-> SubmissionError("Job not found")]
      ELSE IF parsed.raised
      THEN [calls |-> to_parse, result |-> SubmissionError("Resume parsing failed")]
      ELSE IF missing_sections # {}
      THEN [calls |-> to_parse,
            result |-> SubmissionError("Resume parsing incomplete")]
      ELSE IF UpdateFailed(update)
      THEN [calls |-> to_update,
            result |-> SubmissionError("Failed to update application with scores")]
      ELSE [calls |-> Append(to_update,
                             IF status = "selected" THEN "send_selection_email"
                             ELSE "send_rejection_email"),
            result |-> SubmissionSuccess(status, FALSE)]

\* the calls that send a notification
EmailCalls == {"send_selection_email", "send_rejection_email"}

SubmitInit ==
  /\ s_pc = "idle"
  /\ s_text = <<>>
  /\ s_parsed = NothingReturned
  /\ s_scores = NoScores
  /\ s_calls = <<>>
  /\ s_emailed = "none"
  /\ s_result = NotSubmitted
  /\ s_status = ""
  /\ s_job = ""
  /\ s_update = ""

\* one call of process_application_submission, from entry to return
Submit ==
  /\ s_pc = "idle"
  /\ \E text \in ResumeTexts, job \in JobOutcomes, scores \in ScoreResults,
        update \in UpdateOutcomes, email \in EmailOutcomes :
       \E parsed \in ParseResults(text) :
         LET run == process_application_submission(text, job, parsed, scores, update)
             called == Range(run.calls)
         IN  /\ s_text' = text
             /\ s_parsed' = IF "parse_resume" \in called /\ ~ parsed.raised
                            THEN parsed.value ELSE NothingReturned
             /\ s_scores' = IF "calculate_fit_score" \in called THEN scores
                            ELSE NoScores
             /\ s_calls' = run.calls
             /\ s_emailed' = IF called \cap EmailCalls # {} THEN email ELSE "none"
             /\ s_result' = run.result
             /\ s_status' = IF "update_application_score" \in called
                            THEN ApplicationStatus(scores) ELSE ""
             /\ s_job' = IF "get_job" \in called THEN job ELSE ""
             /\ s_update' = IF "update_application_score" \in called THEN update
                            ELSE ""
  /\ s_pc' = "returned"
  /\ UNCHANGED <<limiterVars, retryVars, parseVars, mergeVars, concVars, validateVars, finalVars,
                 jobVars>>

(***************************************************************************)
(* wait_if_needed() called by concurrent callers of one RateLimiter: each  *)
(* statement of the method is a step, and the steps of the callers         *)
(* interleave.                                                             *)
(***************************************************************************)
Callers == {1, 2}

\* the callers at rest, for the specifications that do not run them
ConcIdle ==
  /\ c_clock = 0
  /\ c_requests = <<>>
  /\ c_pc = [t \in Callers |-> "done"]
  /\ c_now = [t \in Callers |-> 0]
  /\ c_kept = [t \in Callers |-> <<>>]

\* the agent was constructed at 0, which called wait_if_needed once; the
\* callers arrive from 1 on
ConcInit ==
  /\ c_clock = 1
  /\ c_requests = <<0>>
  /\ c_pc = [t \in Callers |-> "start"]
  /\ c_now = [t \in Callers |-> 0]
  /\ c_kept = [t \in Callers |-> <<>>]

\* time passes between the steps of the callers
ConcTick ==
  /\ c_clock <= MaxTicks
  /\ \E t \in Callers : c_pc[t] # "done"
  /\ c_clock' = c_clock + 1
  /\ UNCHANGED <<c_requests, c_pc, c_now, c_kept>>
  /\ UNCHANGED <<limiterVars, retryVars, parseVars, mergeVars, submitVars, validateVars, finalVars,
                 jobVars>>

\* now = datetime.now(), and the list comprehension over self.requests
ConcRead ==
  /\ \E t \in Callers :
       /\ c_pc[t] = "start"
       /\ c_now' = [c_now EXCEPT ![t] = c_clock]
       /\ c_kept' = [c_kept EXCEPT ![t] = Purge(c_requests, c_clock)]
       /\ c_pc' = [c_pc EXCEPT ![t] = "store"]
  /\ UNCHANGED <<c_clock, c_requests>>
  /\ UNCHANGED <<limiterVars, retryVars, parseVars, mergeVars, submitVars, validateVars, finalVars,
                 jobVars>>

\* self.requests = <the list the comprehension built>
ConcStore ==
  /\ \E t \in Callers :
       /\ c_pc[t] = "store"
       /\ c_requests' = c_kept[t]
       /\ c_pc' = [c_pc EXCEPT ![t] = "check"]
  /\ UNCHANGED <<c_clock, c_now, c_kept>>
  /\ UNCHANGED <<limiterVars, retryVars, parseVars, mergeVars, submitVars, validateVars, finalVars,
                 jobVars>>

\* the count check on self.requests, when the caller need not sleep
ConcCheckPass ==
  /\ \E t \in Callers :
       /\ c_pc[t] = "check"
       /\ ~ MustSleep(c_requests, c_now[t])
       /\ c_pc' = [c_pc EXCEPT ![t] = "append"]
  /\ UNCHANGED <<c_clock, c_requests, c_now, c_kept>>
  /\ UNCHANGED <<limiterVars, retryVars, parseVars, mergeVars, submitVars, validateVars, finalVars,
                 jobVars>>

\* the count check on self.requests and time.sleep(total_wait)
ConcCheckSleep ==
  /\ \E t \in Callers, jitter \in JitterChoices :
       LET wake == c_now[t] + WaitTime(c_requests, c_now[t]) + jitter
       IN  /\ c_pc[t] = "check"
           /\ MustSleep(c_requests, c_now[t])
           /\ c_clock' = IF wake > c_clock THEN wake ELSE c_clock
           /\ c_pc' = [c_pc EXCEPT ![t] = "append"]
  /\ UNCHANGED <<c_requests, c_now, c_kept>>
  /\ UNCHANGED <<limiterVars, retryVars, parseVars, mergeVars, submitVars, validateVars, finalVars,
                 jobVars>>

\* self.requests.append(now), and the return
ConcAppend ==
  /\ \E t \in Callers :
       /\ c_pc[t] = "append"
       /\ c_requests' = AppendRequest(c_requests, c_now[t])
       /\ c_pc' = [c_pc EXCEPT ![t] = "done"]
  /\ UNCHANGED <<c_clock, c_now, c_kept>>
  /\ UNCHANGED <<limiterVars, retryVars, parseVars, mergeVars, submitVars, validateVars, finalVars,
                 jobVars>>

(***************************************************************************)
(* process_job_creation: one invocation, with what generate_job_details    *)
(* and create_job give.                                                    *)
(***************************************************************************)
\* db.create_job: the formatted job; an exception before insert_one; or,
\* after insert_one, an exception or None from _format_job_dict
CreateOutcomes == {"job", "raises_before", "raises_after", "none_after"}

\* the outcomes of create_job that leave a record in the jobs collection
Inserted(create) == IF create = "raises_before" THEN 0 ELSE 1

\* what generate_job_details can return
JobResults == {JobReturn(result, body) :
                 result \in {RetriesExhausted, [kind |-> "response", error |-> "", count |-> 1]},
                 body \in JobBodies}

JobCreationError == [status |-> "error", has_error |-> TRUE, has_job_id |-> FALSE]

JobCreationSuccess == [status |-> "success", has_error |-> FALSE, has_job_id |-> TRUE]

NoJobCreation == [status |-> "", has_error |-> FALSE, has_job_id |-> FALSE]

\* `job_details and 'status' not in job_details`, negated
IsErrorResponseNever(details) == FALSE

IsErrorResponse(details) == "status" \in details.keys

\* process_job_creation: the calls on its collaborators, the records inserted
\* and the mapping returned
process_job_creation(details, create) ==
  IF IsErrorResponse(details)
  THEN [calls |-> <<"generate_job_details">>, written |-> 0,
        result |-> JobCreationError]
  ELSE [calls |-> <<"generate_job_details", "create_job">>,
        written |-> Inserted(create),
        result |-> IF create = "job" /\ JobFields \subseteq details.keys
                   THEN JobCreationSuccess ELSE JobCreationError]

JobInit ==
  /\ j_pc = "idle"
  /\ j_details = NotReturned
  /\ j_calls = <<>>
  /\ j_written = 0
  /\ j_result = NoJobCreation

\* one call of process_job_creation, from entry to return
CreateJob ==
  /\ j_pc = "idle"
  /\ \E details \in JobResults, create \in CreateOutcomes :
       LET run == process_job_creation(details, create)
       IN  /\ j_details' = details
           /\ j_calls' = run.calls
           /\ j_written' = run.written
           /\ j_result' = run.result
  /\ j_pc' = "returned"
  /\ UNCHANGED <<limiterVars, retryVars, parseVars, mergeVars, submitVars, concVars,
                 validateVars, finalVars>>

\* the limiter of a ResumeParserAgent: __init__ has called wait_if_needed once
AgentLimiterInit ==
  /\ clock = 0
  /\ requests = <<0>>
  /\ l_pc = "idle"
  /\ l_now = 0
  /\ l_wake = 0
  /\ l_calls = 1
  /\ issued = <<0>>

(***************************************************************************)
(* Specifications.                                                         *)
(***************************************************************************)
\* sequential callers of one shared RateLimiter
InitLimiter ==
  LimiterInit /\ RetryInit /\ ParseInit /\ MergeIdle /\ SubmitInit /\ ConcIdle
    /\ ValidateIdle /\ FinalIdle /\ JobInit

NextLimiter == CallImmediate \/ CallSleep \/ SleepTick \/ WaitReturn

SpecLimiter == InitLimiter /\ [][NextLimiter]_vars

\* the same, with the sleep of wait_if_needed running to its end
FairSpecLimiter == SpecLimiter /\ WF_vars(SleepTick) /\ WF_vars(WaitReturn)

\* invocations of generate_job_details and calculate_fit_score
InitRetry ==
  AgentLimiterInit /\ RetryInit /\ ParseInit /\ MergeIdle /\ SubmitInit /\ ConcIdle
    /\ ValidateIdle /\ FinalIdle /\ JobInit

NextRetry == WrapperStart \/ WrapperAttempt \/ FitMinimal \/ DetailedFeedback

SpecRetry == InitRetry /\ [][NextRetry]_vars

\* one invocation of parse_resume
InitParse ==
  AgentLimiterInit /\ RetryInit /\ ParseInit /\ MergeIdle /\ SubmitInit /\ ConcIdle
    /\ ValidateIdle /\ FinalIdle /\ JobInit

NextParse == ParseBlank \/ ParseStart \/ ParseAttempt

SpecParse == InitParse /\ [][NextParse]_vars

\* the workflows of OrchestrationGraph: submissions and job creations, and
\* direct calls of parse_resume with a blank text
InitSubmit ==
  AgentLimiterInit /\ RetryInit /\ ParseInit /\ MergeIdle /\ SubmitInit /\ ConcIdle
    /\ ValidateIdle /\ FinalIdle /\ JobInit

NextSubmit == Submit \/ ParseBlank \/ CreateJob

SpecSubmit == InitSubmit /\ [][NextSubmit]_vars

\* two callers inside wait_if_needed of one RateLimiter at once
InitConcurrent ==
  LimiterInit /\ RetryInit /\ ParseInit /\ MergeIdle /\ SubmitInit /\ ConcInit
    /\ ValidateIdle /\ FinalIdle /\ JobInit

NextConcurrent ==
  ConcTick \/ ConcRead \/ ConcStore \/ ConcCheckPass \/ ConcCheckSleep \/ ConcAppend

SpecConcurrent == InitConcurrent /\ [][NextConcurrent]_vars

\* _validate_chunk_info applied to one parsed response
InitValidate ==
  AgentLimiterInit /\ RetryInit /\ ParseInit /\ MergeIdle /\ SubmitInit /\ ConcIdle
    /\ ValidateInit /\ FinalIdle /\ JobInit

NextValidate == Validate

SpecValidate == InitValidate /\ [][NextValidate]_vars

\* the end of parse_resume applied to one accumulator
InitFinal ==
  AgentLimiterInit /\ RetryInit /\ ParseInit /\ MergeIdle /\ SubmitInit /\ ConcIdle
    /\ ValidateIdle /\ FinalInit /\ JobInit

NextFinal == Finalize

SpecFinal == InitFinal /\ [][NextFinal]_vars

\* chunk lists folded into one accumulator list
InitMerge ==
  LimiterInit /\ RetryInit /\ ParseInit /\ MergeInit /\ SubmitInit /\ ConcIdle
    /\ ValidateIdle /\ FinalIdle /\ JobInit

NextMerge == MergeChunk \/ MergeAgain

SpecMerge == InitMerge /\ [][NextMerge]_vars

(***************************************************************************)
(* Vocabulary of the claims about the limiter.                             *)
(***************************************************************************)
\* number of entries of a list of instants within the window starting at t
InWindow(instants, t) ==
  Cardinality({j \in DOMAIN instants : t <= instants[j] /\ instants[j] < t + time_window})

(***************************************************************************)
(* C1: no 60-second window contains more than 2 of the timestamps recorded *)
(* in the limiter's request list.                                          *)
(***************************************************************************)
C1_RecordedWithinQuota ==
  \A i \in DOMAIN requests : InWindow(requests, requests[i]) <= max_requests

(***************************************************************************)
(* C2: no 60-second window contains more than 2 of the instants at which   *)
(* wait_if_needed returned.                                                *)
(***************************************************************************)
C2_IssuedWithinQuota ==
  \A i \in DOMAIN issued : InWindow(issued, issued[i]) <= max_requests

(***************************************************************************)
(* C3: a call of wait_if_needed that sleeps eventually returns, and every  *)
(* return leaves exactly one new timestamp, the call's `now`, at the end   *)
(* of the purged request list.                                             *)
(***************************************************************************)
Returns == Len(issued') = Len(issued) + 1

OneNewTimestamp ==
  LET before == IF l_pc = "sleeping" THEN requests ELSE Purge(requests, l_now')
  IN  requests' = Append(before, l_now')

C3_AlwaysReturns ==
  /\ [][Returns => OneNewTimestamp]_vars
  /\ [](l_pc = "sleeping" => <>(l_pc = "idle"))

\* a call that slept has returned
C3_Witness ==
  /\ l_pc = "idle"
  /\ Len(issued) = MaxCalls
  /\ \E i \in DOMAIN issued : issued[i] > requests[Len(requests)]

(***************************************************************************)
(* Vocabulary of the claims about the retry wrappers.                      *)
(***************************************************************************)
\* what the latest generate_content attempt of the invocation gave
LastOutcome == IF w_outcomes = <<>> THEN "none" ELSE w_outcomes[Len(w_outcomes)]

(***************************************************************************)
(* C4: an invocation of generate_job_details or calculate_fit_score makes  *)
(* at most 3 generation attempts, and when 3 attempts ended with a "429"   *)
(* failure the loop has ended with the retries-exhausted error carrying    *)
(* the count 3.                                                            *)
(***************************************************************************)
C4_ThreeAttemptsThenExhausted ==
  /\ Len(w_outcomes) <= 3
  /\ w_outcomes = <<"rate", "rate", "rate">> =>
       /\ w_pc = "done"
       /\ w_result = [kind |-> "raised", error |-> "RetriesExhausted", count |-> 3]

\* three attempts were rate-limited, with a cooldown after the first two
C4_Witness ==
  /\ w_outcomes = <<"rate", "rate", "rate">>
  /\ w_cooldowns = 2
  /\ w_pc = "done"

(***************************************************************************)
(* C5: when a generation attempt of a wrapper fails with something other   *)
(* than a "429" failure, the loop ends at once, without a cooldown for     *)
(* that attempt, and what it raises is that failure.                       *)
(***************************************************************************)
C5_OtherFailurePropagated ==
  LastOutcome = "error" =>
    /\ w_pc = "done"
    /\ w_cooldowns < Len(w_outcomes)
    /\ w_result.kind = "raised"
    /\ w_result.error = "error"

(***************************************************************************)
(* C6: when generate_job_details receives a response with empty text, the  *)
(* attempt counts against the budget of 3 and, while attempts remain, the  *)
(* loop goes on to request again.                                          *)
(***************************************************************************)
C6_EmptyResponseRetried ==
  LastOutcome = "empty" =>
    /\ retry_count = Len(w_outcomes)
    /\ retry_count < max_retries => w_pc = "loop"

(***************************************************************************)
(* Vocabulary of the claims about parse_resume.                            *)
(***************************************************************************)
IsPrefix(s, t) == Len(s) <= Len(t) /\ s = SubSeq(t, 1, Len(s))

\* a chunk has finished and none of its attempts passed _validate_chunk_info
ChunkFailed == p_fin.chunk # 0 /\ p_fin.valid_at = 0

\* every skill and education entry of the accumulator is in the result
AccumulatorReturned ==
  /\ \A i \in DOMAIN combined_info.skills :
       \E j \in DOMAIN p_result.skills : p_result.skills[j] = combined_info.skills[i]
  /\ \A i \in DOMAIN combined_info.education :
       \E j \in DOMAIN p_result.education :
         p_result.education[j] = combined_info.education[i]

(***************************************************************************)
(* C7: when a chunk has finished without any attempt passing validation,   *)
(* the accumulator is as it was before the chunk, parse_resume has not     *)
(* taken its failure path, and once it has returned the accumulator's      *)
(* elements are in the returned structure.                                 *)
(***************************************************************************)
C7_BadChunkNeverAborts ==
  ChunkFailed =>
    /\ combined_info = p_fin.before
    /\ ~ p_result.parsing_error
    /\ p_pc = "done" => AccumulatorReturned

(***************************************************************************)
(* C8: the temperatures requested for a chunk are a prefix of 0.3, 0.5,    *)
(* 0.7, and a chunk for which an attempt passed validation finished with   *)
(* that attempt as its last request.                                       *)
(***************************************************************************)
C8_NoRequestAfterValid ==
  /\ IsPrefix(p_temps, <<3, 5, 7>>)
  /\ IsPrefix(p_fin.temps, <<3, 5, 7>>)
  /\ p_fin.valid_at # 0 => Len(p_fin.temps) = p_fin.valid_at

\* the placeholder entries
PlaceholderOf(section) ==
  CASE section = "education" ->
         [degree |-> NotSpecified, institution |-> NotSpecified, year |-> NotSpecified]
    [] section = "skills" -> [str |-> GeneralSkills]
    [] section = "experience" ->
         [title |-> NotSpecified, company |-> NotSpecified, duration |-> NotSpecified,
          responsibilities |-> <<NotSpecified>>]
    [] section = "projects" ->
         [name |-> NotSpecified, description |-> NotSpecified,
          technologies |-> <<NotSpecified>>]

Sections == {"education", "skills", "experience", "projects"}

\* parse_resume returned from its success path
Finished == p_pc = "done" /\ ~ p_result.parsing_error

\* parse_resume returned from its except block
Failed == p_pc = "done" /\ p_result.parsing_error

PlaceholderCount(section) ==
  Cardinality({i \in DOMAIN p_result[section] : p_result[section][i] = PlaceholderOf(section)})

(***************************************************************************)
(* C12: a result of the success path of parse_resume has no empty section, *)
(* and when the accumulator is empty in every section each section of the  *)
(* result holds exactly one placeholder element.                           *)
(***************************************************************************)
C12_NeverEmptySection ==
  Finished =>
    /\ \A section \in Sections : p_result[section] # <<>>
    /\ combined_info = NoEntries =>
         \A section \in Sections : PlaceholderCount(section) = 1

\* the finalization of an empty accumulator
C12_Witness ==
  /\ Finished
  /\ combined_info = NoEntries
  /\ p_found = {}
  /\ p_chunks = MaxChunks

C14_NeverRaises ==
  /\ p_pc # "raised"
  /\ Failed => \A section \in Sections : p_result[section] = <<>>

(***************************************************************************)
(* C14 amended: an exception leaves parse_resume only for a blank text     *)
(* (the ValueError raised before the try block); for every other text and  *)
(* every behaviour of the service an internal error ends in the structure  *)
(* of the except block, with the four sections empty and parsing_error.    *)
(***************************************************************************)
C14_RaisesOnlyOnBlank ==
  /\ p_pc = "raised" => IsBlank(resume_text)
  /\ p_pc = "done" => ~ IsBlank(resume_text)
  /\ Failed => \A section \in Sections : p_result[section] = <<>>

\* an internal error was caught and converted
C14_Witness ==
  /\ Failed
  /\ p_fin.kind = "raising"
  /\ p_fin.before # NoEntries

(***************************************************************************)
(* Vocabulary of the claims about one merge: m_prev is the list before,    *)
(* m_new the candidates, m_existing the list after.                        *)
(***************************************************************************)
Merged == m_count > 0

\* the elements of a list before position j
Earlier(list, j) == {list[i] : i \in 1 .. j - 1}

\* the positions the merge appended
Appended == Len(m_prev) + 1 .. Len(m_existing)

ExistingKept ==
  /\ Len(m_existing) >= Len(m_prev)
  /\ SubSeq(m_existing, 1, Len(m_prev)) = m_prev

AppendedAreCandidates ==
  /\ Len(m_existing) <= Len(m_prev) + Len(m_new)
  /\ \A j \in Appended : m_existing[j] \in Range(m_new)

(***************************************************************************)
(* C9 as stated: a merge keeps the existing elements in place, appends     *)
(* only candidates, appends a candidate only when its similarity to every  *)
(* earlier element is below 0.8, and drops one only when its similarity to *)
(* some element of the list is at least 0.8.                               *)
(***************************************************************************)
C9_DiscardAtLeast08 ==
  Merged =>
    /\ ExistingKept
    /\ AppendedAreCandidates
    /\ \A j \in Appended : \A e \in Earlier(m_existing, j) :
         SimilarityClass(m_existing[j], e) = "below"
    /\ \A k \in DOMAIN m_new : \E e \in Range(m_existing) :
         SimilarityClass(m_new[k], e) # "below"

(***************************************************************************)
(* C9 amended: a merge keeps the existing elements in place, appends only  *)
(* candidates, appends a candidate only when its similarity to every       *)
(* earlier element is at most 0.8, and drops one only when its similarity  *)
(* to some element of the list is strictly above 0.8 (a candidate at       *)
(* exactly 0.8 is kept).                                                   *)
(***************************************************************************)
C9_DiscardAbove08 ==
  Merged =>
    /\ ExistingKept
    /\ AppendedAreCandidates
    /\ \A j \in Appended : \A e \in Earlier(m_existing, j) :
         SimilarityClass(m_existing[j], e) # "above"
    /\ \A k \in DOMAIN m_new : \E e \in Range(m_existing) :
         SimilarityClass(m_new[k], e) = "above"

\* a candidate at exactly 0.8 from an existing element was appended
C9_Witness ==
  /\ Merged
  /\ Len(m_prev) > 0
  /\ Len(m_new) > 0
  /\ Len(m_existing) = Len(m_prev) + 1
  /\ \E e \in Range(m_prev) : SimilarityClass(m_existing[Len(m_existing)], e) = "at"

(***************************************************************************)
(* C11: when a candidate and an element already in the list differ only by *)
(* one trailing blank or punctuation character, their similarity is at     *)
(* least 0.8 and the merge does not append the candidate.                  *)
(***************************************************************************)
DiffersByTrailing(x, y) ==
  /\ ~ IsDict(x)
  /\ ~ IsDict(y)
  /\ \E c \in Suffixes : x.str = Append(y.str, c) \/ y.str = Append(x.str, c)

C11_TrailingSuppressed ==
  Merged =>
    \A k \in DOMAIN m_new : \A e \in Range(m_prev) :
      DiffersByTrailing(m_new[k], e) =>
        /\ SimilarityClass(m_new[k], e) # "below"
        /\ \A j \in Appended : m_existing[j] # m_new[k]

(***************************************************************************)
(* C10: merging a chunk list into the accumulator a second time leaves the *)
(* accumulator as the first merge left it (the second merge appends        *)
(* nothing).                                                               *)
(***************************************************************************)
C10_MergeIdempotent == m_again => m_existing = m_prev

C10_Witness ==
  /\ m_again
  /\ Len(m_new) > 0
  /\ Len(m_prev) = MaxAcc
  /\ m_count = 2

(***************************************************************************)
(* Blank input.                                                            *)
(***************************************************************************)
\* C15: blank resume text (empty or only whitespace) is rejected at once.
\* parse_resume raises before its first chunk, with no wait_if_needed and no
\* generation request; process_application_submission returns an error
\* without calling any collaborator, so that nothing is parsed, scored,
\* persisted or emailed.
C15_BlankRejectedAtOnce ==
  /\ p_pc = "raised" =>
       /\ IsBlank(resume_text)
       /\ p_i = 0 /\ p_calls = <<>> /\ p_temps = <<>>
       /\ requests = <<0>> /\ issued = <<0>>
  /\ (s_pc = "returned" /\ IsBlank(s_text)) =>
       /\ s_calls = <<>>
       /\ s_emailed = "none"
       /\ s_result = SubmissionError("Resume text is empty or invalid")

\* C15 (witness): both parse_resume and the submission were given a text of
\* blanks only
C15_Witness ==
  /\ p_pc = "raised" /\ resume_text = <<" ", " ">>
  /\ s_pc = "returned" /\ s_text = <<" ">>

(***************************************************************************)
(* Concurrent callers of one RateLimiter.                                  *)
(***************************************************************************)
\* the callers whose wait_if_needed has returned
Returned_Callers == {t \in Callers : c_pc[t] = "done"}

\* number of entries of a list equal to v
Count(list, v) == Cardinality({i \in DOMAIN list : list[i] = v})

\* the caller is between its read of self.requests and its append
InSection(t) == c_pc[t] \in {"store", "check", "append"}

\* no returned call's timestamp that is younger than time_window is missing
\* from self.requests
NoTimestampLost ==
  \A t \in Returned_Callers :
    c_clock - c_now[t] < time_window =>
      Count(c_requests, c_now[t])
        >= Cardinality({u \in Returned_Callers : c_now[u] = c_now[t]})

\* C19: with concurrent callers of one RateLimiter the read-purge-append
\* sequence runs under mutual exclusion: no returned call's timestamp is lost
\* from the list, and no caller is inside the sequence (so none runs its count
\* check) while another caller is inside it.
C19_MutualExclusion ==
  /\ NoTimestampLost
  /\ \A t, u \in Callers : t # u => ~ (InSection(t) /\ InSection(u))

(***************************************************************************)
(* calculate_fit_score for a resume whose parsing failed.                  *)
(***************************************************************************)
\* C16: when parsed_resume has neither skills nor experience,
\* calculate_fit_score returns exactly 5.0 (50 tenths) for each of the four
\* scores, and the invocation makes no call of wait_if_needed and no
\* generation request.
C16_MinimalScoresWithoutCall ==
  (w_site = "fit" /\ w_parsed.skills = <<>> /\ w_parsed.experience = <<>>) =>
    /\ w_pc = "done"
    /\ w_return.kind = "scores"
    /\ ScoreFields \subseteq w_return.keys
    /\ \A f \in ScoreFields : w_return.scores[f] = 50
    /\ w_events = <<>>
    /\ w_outcomes = <<>>

\* C16 (witness): the early return happened on an agent whose limiter holds
\* the request of an earlier scoring
C16_Witness ==
  /\ w_site = "fit" /\ w_parsed.skills = <<>> /\ w_parsed.experience = <<>>
  /\ w_pc = "done"
  /\ w_runs = 2
  /\ Len(requests) = 2

(***************************************************************************)
(* generate_job_details when generation fails.                             *)
(***************************************************************************)
\* C17: when generate_job_details fails altogether, the mapping it returns
\* still has the keys description, responsibilities, required_skills and
\* qualifications (with empty values), and an error string.
C17_FailureKeepsFields ==
  (w_site = "job" /\ w_pc = "done" /\ w_return.kind = "error") =>
    /\ JobFields \subseteq w_return.keys
    /\ "error" \in w_return.keys

(***************************************************************************)
(* The envelope around the generation requests.                            *)
(***************************************************************************)
\* C18: every generation request of an invocation comes right after a
\* wait_if_needed() of a rate limiter, and sits inside the retry wrapper:
\* after a request that failed with a "429" failure, with attempts left, the
\* invocation is still in its loop.
C18_EveryRequestInEnvelope ==
  /\ \A i \in DOMAIN w_events :
       w_events[i] = "generate_content" =>
         i > 1 /\ w_events[i - 1] = "wait_if_needed"
  /\ (LastOutcome = "rate" /\ Len(w_outcomes) < max_retries) => w_pc = "loop"

(***************************************************************************)
(* Validation of one parsed response.                                      *)
(***************************************************************************)
\* the entry of a response's list survives cleaning: a skill that is a
\* string with something in it besides blanks, or a dict whose identifying
\* fields are not all blank
Survives(section, entry) ==
  CASE section = "skills" -> IsString(entry) /\ Strip(entry.str) # <<>>
    [] section = "education" ->
         ~ IsString(entry) /\ (Strip(entry.degree) # <<>> \/ Strip(entry.institution) # <<>>)
    [] section = "experience" ->
         ~ IsString(entry) /\ (Strip(entry.title) # <<>> \/ Strip(entry.company) # <<>>)
    [] section = "projects" ->
         ~ IsString(entry) /\ (Strip(entry.name) # <<>> \/ Strip(entry.description) # <<>>)

\* some entry of some section that is a list survives cleaning
SomeEntrySurvives(given) ==
  \E section \in Sections :
    /\ given[section].form = "list"
    /\ \E i \in DOMAIN given[section].items :
         Survives(section, given[section].items[i])

\* C21: _validate_chunk_info accepts a response exactly when it is a mapping
\* and some entry of its four lists survives cleaning, a missing section or
\* one that is not a list counting as empty; and what it leaves in an
\* accepted response is: education entries with a degree or an institution,
\* experience entries with a title or a company, project entries with a name
\* or a description, and skills that are non-empty trimmed strings.
C21_AcceptsIffSomethingSurvives ==
  v_pc = "validated" =>
    /\ v_out.ok <=> (v_in.kind = "map" /\ SomeEntrySurvives(v_in))
    /\ v_out.ok =>
         /\ \A i \in DOMAIN v_out.info.education :
              v_out.info.education[i].degree # <<>>
                \/ v_out.info.education[i].institution # <<>>
         /\ \A i \in DOMAIN v_out.info.experience :
              v_out.info.experience[i].title # <<>>
                \/ v_out.info.experience[i].company # <<>>
         /\ \A i \in DOMAIN v_out.info.projects :
              v_out.info.projects[i].name # <<>>
                \/ v_out.info.projects[i].description # <<>>
         /\ \A i \in DOMAIN v_out.info.skills :
              /\ v_out.info.skills[i].str # <<>>
              /\ Strip(v_out.info.skills[i].str) = v_out.info.skills[i].str

\* C21 (witness): a response was accepted for an experience entry that has a
\* company only, while its skills were not a list and its education entry
\* was dropped
C21_Witness ==
  /\ v_pc = "validated" /\ v_out.ok
  /\ v_in.skills.form = "other"
  /\ v_in.education.form = "list" /\ v_in.education.items # <<>>
  /\ v_out.info.education = <<>>
  /\ Len(v_out.info.experience) = 1
  /\ v_out.info.experience[1].title = <<>>
  /\ v_out.info.projects = <<>>

(***************************************************************************)
(* The skills returned.                                                    *)
(***************************************************************************)
\* C22: the skills list parse_resume returns on its success path holds no
\* two equal strings, also when the keyword scan for fewer than 3 skills has
\* appended keywords found in the document.
C22_SkillsDistinct ==
  f_pc = "finalized" =>
    \A i, j \in DOMAIN f_result.skills :
      i # j => f_result.skills[i] # f_result.skills[j]

(***************************************************************************)
(* C23: calculate_fit_score never raises: whatever the parsed resume and   *)
(* whatever the service does (a response, JSON that does not parse, JSON   *)
(* that is not a mapping, missing fields, values out of range or not       *)
(* numbers, rate-exceeded errors, other errors), it returns a mapping with *)
(* skill_match_score, experience_relevance_score, education_alignment_score*)
(* and overall_fit_score, each within [0, 100], and a reasoning field.     *)
(***************************************************************************)
C23_ScoresAlwaysWellFormed ==
  (w_site = "fit" /\ w_pc = "done") =>
    /\ w_return.kind = "scores"
    /\ ScoreFields \cup {"reasoning"} \subseteq w_return.keys
    /\ \A f \in ScoreFields :
         lowest_score <= w_return.scores[f] /\ w_return.scores[f] <= highest_score

\* C23: a scoring response whose skill score is above 100 and whose
\* education score is below 0 was normalised and returned
C23_Witness ==
  /\ w_site = "fit" /\ w_pc = "done"
  /\ w_body.mapping
  /\ w_body.fields.skill_match_score = RawValue("number", 1010)
  /\ w_body.fields.education_alignment_score = RawValue("number", -10)
  /\ w_return.scores.skill_match_score = highest_score
  /\ w_return.scores.education_alignment_score = lowest_score

(***************************************************************************)
(* C24: when the scoring response does not provide overall_fit_score, the  *)
(* returned overall_fit_score is the weighted average                      *)
(* 0.4 * skill + 0.4 * experience + 0.2 * education of the normalised      *)
(* component scores.                                                       *)
(***************************************************************************)
C24_MissingOverallIsWeightedAverage ==
  (/\ w_site = "fit" /\ w_pc = "done"
   /\ w_body.mapping
   /\ w_body.fields.overall_fit_score.kind = "missing") =>
    10 * w_return.scores.overall_fit_score =
      4 * w_return.scores.skill_match_score
        + 4 * w_return.scores.experience_relevance_score
        + 2 * w_return.scores.education_alignment_score

(***************************************************************************)
(* process_application_submission: status, persistence and notification.   *)
(***************************************************************************)
\* the calls of the submission that send a notification, in order
EmailsAttempted == SelectSeq(s_calls, LAMBDA c : c \in EmailCalls)

\* the position of a call in s_calls, 0 when it was not made
PositionOf(call) ==
  IF call \in Range(s_calls)
  THEN CHOOSE i \in DOMAIN s_calls : s_calls[i] = call
  ELSE 0

\* C25: the status given to update_application_score is 'selected' exactly
\* when overall_fit_score >= 70 and skill_match_score >= 60, and 'rejected'
\* otherwise; the notification attempted matches that status (a selection
\* email only for 'selected', a rejection email only for 'rejected'), there
\* is never more than one, and the returned application_status is that status.
C25_StatusAndEmailFollowThresholds ==
  s_pc = "returned" =>
    /\ "update_application_score" \in Range(s_calls) =>
         /\ s_status \in {"selected", "rejected"}
         /\ s_status = "selected" <=>
              (s_scores.overall_fit_score >= 700 /\ s_scores.skill_match_score >= 600)
    /\ "send_selection_email" \in Range(s_calls) => s_status = "selected"
    /\ "send_rejection_email" \in Range(s_calls) => s_status = "rejected"
    /\ Len(EmailsAttempted) <= 1
    /\ s_result.status = "success" => s_result.application_status = s_status

\* C25 (witness): scores exactly on both thresholds were recorded as
\* 'selected' and the selection email was attempted
C25_Witness ==
  /\ s_pc = "returned"
  /\ s_scores = [skill_match_score |-> 600, overall_fit_score |-> 700]
  /\ s_status = "selected"
  /\ EmailsAttempted = <<"send_selection_email">>

C27_FailedEmailGivesWarning ==
  (s_pc = "returned" /\ s_emailed = "unsent") =>
    /\ s_result.status = "success"
    /\ s_result.application_status = s_status
    /\ s_result.warning

(***************************************************************************)
(* process_job_creation.                                                   *)
(***************************************************************************)
\* C30: process_job_creation writes at most one job record per invocation,
\* and only when generate_job_details returned a structure that is not an
\* error: for an error result create_job is not called, no record is
\* written and the result has status 'error' with an error message; it
\* always returns a result of status 'success' or 'error'.
C30_JobOnlyForGeneratedDetails ==
  j_pc = "returned" =>
    /\ j_written <= 1
    /\ j_result.status \in {"success", "error"}
    /\ j_result.status = "error" => j_result.has_error
    /\ j_written = 1 => j_details.kind = "details"
    /\ j_details.kind = "error" =>
         /\ "create_job" \notin Range(j_calls)
         /\ j_written = 0
         /\ j_result = JobCreationError

\* C30 (witness): generate_job_details returned an error result and
\* process_job_creation returned
C30_Witness ==
  /\ j_pc = "returned"
  /\ j_details.kind = "error"
  /\ j_result.status = "error"

(***************************************************************************)
(* C28: over any sequence of invocations of generate_job_details on one    *)
(* JobRoleAgent, no 60-second window contains more than 2 of the           *)
(* generation requests it issues: the limiter's history carries over from  *)
(* one invocation to the next.                                             *)
(***************************************************************************)
C28_GenerationWithinQuotaAcrossInvocations ==
  \A i \in DOMAIN w_issued : InWindow(w_issued, w_issued[i]) <= max_requests

(***************************************************************************)
(* C29: every result of generate_job_details that is not an error, on the  *)
(* direct JSON path and on the fallback path alike, contains description,  *)
(* responsibilities, required_skills and qualifications, and each of the   *)
(* three list fields is a non-empty list.                                  *)
(***************************************************************************)
C29_JobDetailsComplete ==
  (w_site = "job" /\ w_pc = "done" /\ w_return.kind = "details") =>
    /\ JobFields \subseteq w_return.keys
    /\ w_return.empty \cap ListFields = {}

====
